---- MODULE Spec2Model ----
(***************************************************************************)
(* A model of the RetroArch acceptance-test runner:                        *)
(*   TestRunner.run / TestRunner._run_step        (runner.py)              *)
(*   RetroArchController.launch / send_command / set_state_slot /          *)
(*   capture_screenshot / shutdown                (retroarch.py)           *)
(* The runner is single-threaded; the only concurrent parties are the      *)
(* emulator child processes (which may exit at any moment) and whoever     *)
(* writes files into the screenshot directory.                             *)
(***************************************************************************)
EXTENDS Integers, Sequences, FiniteSets, TLC

\* ---------------------------------------------------------------- bounds
MaxSteps == 2          \* longest test definition explored
MaxSlot == 2           \* largest save-state slot a step asks for
MaxRepeat == 2         \* largest repeat count of an input step
MaxTimeout == 2        \* longest screenshot timeout, in poll intervals
MaxAppend == 2         \* most caller-supplied append-config paths

\* ------------------------------------------------------- Optional values
None == <<>>
Some(x) == <<x>>

\* ------------------------------------------------------- error texts
AlreadyRunning == "RetroArch is already running."
ExecutableNotFound == "RetroArch executable not found. Provide retroarch_path or set RETROARCH_PATH."
InvalidSlot == "State slot must be non-negative."
SleepValueError == "sleep length must be non-negative"
SendError == "OSError: sendto failed"
SpawnError == "OSError: exec failed"
TimeoutExpired == "Command timed out after 8.0 seconds"
ScreenshotTimeout == "Timed out waiting for RetroArch screenshot output."
SystemCaptureUnsupported == "System screenshot capture is only supported on macOS."
SystemCaptureNotRunning == "RetroArch must be running to capture a system screenshot."
SystemCaptureFailed == "System screenshot capture failed to create output file."
ValidatorUnconfigured == "OPENROUTER_API_KEY not configured"
ValidatorCallFailed == "httpx.HTTPError"
ValidatorReason == "reason given by the model"

\* ------------------------------------------------------- test definition
StepTypes == {"launch", "wait", "command", "input", "screenshot_assert",
              "save_state", "load_state", "exit"}

\* a step with the defaults of models.py; fields a kind does not have are
\* carried with their default and never read for that kind
MkStep(t) == [type |-> t, command |-> "", repeat |-> 1, slot |-> None,
              seconds |-> 0, capture_mode |-> "retroarch",
              timeout_seconds |-> 0, core_path |-> None,
              content_path |-> None, config_path |-> None, menu |-> None,
              verbose |-> FALSE, extra_args |-> <<>>]

LaunchStep == MkStep("launch")
\* a launch step with the fields build_command branches on
LaunchStepWith(content, menu, verbose, extra) ==
    [LaunchStep EXCEPT !.content_path = content, !.menu = menu,
                       !.verbose = verbose, !.extra_args = extra]
ExitStep == MkStep("exit")
WaitStep(s) == [MkStep("wait") EXCEPT !.seconds = s]
CommandStep(c) == [MkStep("command") EXCEPT !.command = c]
InputStep(c, n) == [MkStep("input") EXCEPT !.command = c, !.repeat = n]
SaveStateStep(s) == [MkStep("save_state") EXCEPT !.slot = s]
LoadStateStep(s) == [MkStep("load_state") EXCEPT !.slot = s]
ScreenshotAssertStep(m, t) ==
    [MkStep("screenshot_assert") EXCEPT !.capture_mode = m,
                                        !.timeout_seconds = t]

\* the steps a definition of the run specification is drawn from: every
\* kind, with the values of its fields that change what its dispatch does
RunSteps ==
    {LaunchStep, ExitStep, WaitStep(1), WaitStep(-1),
     CommandStep("STATE_SLOT_PLUS"),
     InputStep("A", MaxRepeat),
     SaveStateStep(None), SaveStateStep(Some(-1)), SaveStateStep(Some(MaxSlot)),
     LoadStateStep(Some(0)),
     ScreenshotAssertStep("retroarch", 1),
     ScreenshotAssertStep("system", 1)}

\* the steps of the definitions that exercise set_state_slot
Slots == {None} \cup {Some(n) : n \in -1..MaxSlot}
SlotSteps ==
    {SaveStateStep(s) : s \in Slots} \cup {LoadStateStep(s) : s \in Slots}

\* paths and arguments of the definitions that exercise build_command
Executable == "/usr/bin/retroarch"
Core == "core.so"
Content == "game.rom"
BaseConfig == "base.cfg"
UserConfig == "user.cfg"
\* artifacts.append_config_path (runner.py 68)
RunConfig == "retroarch-append.cfg"
ExtraArgs == {<<>>, <<"--fullscreen">>, <<"--appendconfig", UserConfig>>}
LaunchSteps ==
    {LaunchStepWith(c, m, v, e) :
        c \in {None, Some(Content)}, m \in {None, Some(TRUE), Some(FALSE)},
        v \in BOOLEAN, e \in ExtraArgs}

\* the fields of the definition that launch steps default to
MkDefinition(core, content, config, appends) ==
    [core_path |-> core, content_path |-> content, config_path |-> config,
     append_config_paths |-> appends]
PlainDefinition == MkDefinition(Some(Core), None, None, <<>>)

\* the steps of the definitions that exercise capture_screenshot
CaptureSteps == {ScreenshotAssertStep("retroarch", t) : t \in 0..MaxTimeout}

\* ------------------------------------------------- screenshot directory
OldFile == "old.png"       \* a screenshot left by an earlier run
NewFile == "new.png"       \* the name the emulator gives its next screenshot
PlainFile == "core"        \* a file whose name has no dot
SystemFile == "system.png" \* _capture_system_screenshot's target
FileNames == {OldFile, NewFile, PlainFile}
\* a directory maps every name to the st_mtime of the file of that name,
\* or to Absent
Absent == -1
AllNames == FileNames \cup {SystemFile}
EmptyDir == [n \in AllNames |-> Absent]
Names(d) == {n \in AllNames : d[n] # Absent}
Written(d, n, t) == [d EXCEPT ![n] = t]
\* time.sleep(0.25) of the poll loop, in poll intervals
SleepTicks == 1

SeqsUpTo(S, n) == UNION {[1..k -> S] : k \in 0..n}

VARIABLES
    steps,               \* definition.steps
    definition,          \* definition's paths that launch steps default to
    continue_on_failure, \* definition.continue_on_failure
    pc,                  \* where the runner is
    index,               \* loop variable of run (0-based)
    step_results,        \* run's step_results list
    passed,              \* run's passed flag
    pending,             \* exception propagating out of the loop, or None
    dispatched,          \* indexes _run_step was called with, in order
    process,             \* controller._process: 0 = None, else a child id
    log_handle,          \* controller._log_handle: "None", "open" or "closed"
    procs,               \* children spawned so far: id -> "alive" | "exited"
    sent,                \* datagrams handed to the network stack, in order
    signals,             \* signals delivered to children, in order
    log_opens,           \* number of times the log file was opened
    log_closes,          \* number of close() calls on a log handle
    commands,            \* argument vectors handed to Popen, in order
    launch_mark,         \* Len(sent) when the last child was spawned
    sd_caller,           \* who called the shutdown in progress
    shutdown_calls,      \* callers of controller.shutdown so far, in order
    report_writes,       \* number of times results.json was written
    openrouter,          \* context.openrouter is not None
    platform,            \* platform.system()
    state_slot,          \* controller._state_slot
    slot_from,           \* _state_slot when set_state_slot was last entered
    slot_mark,           \* Len(sent) when set_state_slot was last entered
    now,                 \* time.time(), in poll intervals
    dir,                 \* screenshot directory: file name -> st_mtime
    start_time,          \* capture_screenshot's start_time
    before,              \* capture_screenshot's snapshot
    deadline,            \* capture_screenshot's deadline
    wake,                \* when the sleep of the poll loop ends
    last_poll,           \* instants of the directory scans of the capture
    requests             \* SCREENSHOT datagrams the emulator has not answered

vars == <<steps, definition, commands, launch_mark, continue_on_failure, pc, index, step_results, passed, pending,
          dispatched, process, log_handle, procs, sent, signals, log_opens,
          log_closes, sd_caller, shutdown_calls, report_writes, openrouter,
          platform, state_slot, slot_from, slot_mark, now, dir, start_time,
          before, deadline, wake, last_poll, requests>>

defvars == <<steps, definition, continue_on_failure, openrouter, platform>>
slotvars == <<state_slot, slot_from, slot_mark>>
capvars == <<now, dir, start_time, before, deadline, wake, last_poll, requests>>
loopvars == <<index, step_results, passed>>
ctlvars == <<process, log_handle, log_opens, log_closes, commands,
             launch_mark>>

\* state after the constructors of run (runner.py 224-253) for a definition
InitWith(Definitions, Settings, Directories, Validators, Platforms) ==
    /\ steps \in Definitions
    /\ definition \in Settings
    /\ commands = <<>>
    /\ launch_mark = 0
    /\ dir \in Directories
    /\ continue_on_failure \in BOOLEAN
    /\ pc = "loop"
    /\ index = 0
    /\ step_results = <<>>
    /\ passed = TRUE
    /\ pending = None
    /\ dispatched = <<>>
    /\ process = 0
    /\ log_handle = "None"
    /\ procs = <<>>
    /\ sent = <<>>
    /\ signals = <<>>
    /\ log_opens = 0
    /\ log_closes = 0
    /\ sd_caller = "none"
    /\ shutdown_calls = <<>>
    /\ report_writes = 0
    /\ openrouter \in Validators
    /\ platform \in Platforms
    /\ state_slot = 0
    /\ slot_from = 0
    /\ slot_mark = 0
    /\ now = 1
    /\ start_time = 0
    /\ before = EmptyDir
    /\ deadline = 0
    /\ wake = 0
    /\ last_poll = <<>>
    /\ requests = 0

Init == InitWith(SeqsUpTo(RunSteps, MaxSteps), {PlainDefinition}, {EmptyDir}, BOOLEAN,
                 {"Darwin", "Linux"})

step == steps[index + 1]

\* Popen.poll() is None
Alive(p) == p # 0 /\ procs[p] = "alive"

\* ---------------------------------------------------- end of _run_step
\* runner.py 385-399 and 258-262: build the StepResult, append it, and
\* decide whether the loop goes on
StepResult(st, msg, err, shot, eval) ==
    [index |-> index, type |-> step.type, status |-> st, message |-> msg,
     error |-> err, screenshot_path |-> shot, openrouter |-> eval]

\* Finish without the break of runner.py 261-262
FinishWithoutBreak(st, msg, err, shot, eval) ==
    /\ step_results' = Append(step_results, StepResult(st, msg, err, shot, eval))
    /\ passed' = IF st = "failed" THEN FALSE ELSE passed
    /\ pc' = "loop"
    /\ index' = index + 1

\* Finish breaking on any failure, whatever continue_on_failure says
FinishAlwaysBreaks(st, msg, err, shot, eval) ==
    /\ step_results' = Append(step_results, StepResult(st, msg, err, shot, eval))
    /\ passed' = IF st = "failed" THEN FALSE ELSE passed
    /\ IF st = "failed"
         THEN pc' = "finally" /\ index' = index
         ELSE pc' = "loop" /\ index' = index + 1

\* Finish taking passed from the last step alone
FinishLastStepDecides(st, msg, err, shot, eval) ==
    /\ step_results' = Append(step_results, StepResult(st, msg, err, shot, eval))
    /\ passed' = (st # "failed")
    /\ IF st = "failed" /\ ~continue_on_failure
         THEN pc' = "finally" /\ index' = index
         ELSE pc' = "loop" /\ index' = index + 1

Finish(st, msg, err, shot, eval) ==
    /\ step_results' = Append(step_results, StepResult(st, msg, err, shot, eval))
    /\ passed' = IF st = "failed" THEN FALSE ELSE passed
    /\ IF st = "failed" /\ ~continue_on_failure
         THEN pc' = "finally" /\ index' = index
         ELSE pc' = "loop" /\ index' = index + 1

Pass(msg) == Finish("passed", Some(msg), None, None, None)
\* Fail letting the error leave _run_step: no result, the loop is left
FailAborts(err) == pc' = "finally" /\ UNCHANGED loopvars

\* the except clause of _run_step (runner.py 381-383)
Fail(err) == Finish("failed", None, Some(err), None, None)

AtStep(t) ==
    /\ pc = "loop"
    /\ index < Len(steps)
    /\ step.type = t
    /\ dispatched' = Append(dispatched, index)

\* ------------------------------------------------------- build_command
\* a path or option that Python's truth test takes as given
Given(x) == x # None /\ x # Some("")
\* a or b (runner.py 303-308)
Or(a, b) == IF Given(a) THEN a ELSE b

\* build_command emitting --menu unless menu is false
build_commandMenuUnlessFalse(retroarch_path, core_path, content_path, config_path, append_config_paths, menu, verbose, extra_args) ==
    LET AppendArgs[i \in 0..Len(append_config_paths)] ==
            IF i = 0 THEN <<>>
            ELSE AppendArgs[i - 1]
                   \o <<"--appendconfig", append_config_paths[i]>>
    IN  <<retroarch_path>>
          \o (IF verbose THEN <<"--verbose">> ELSE <<>>)
          \o (IF Given(config_path) THEN <<"--config", config_path[1]>> ELSE <<>>)
          \o AppendArgs[Len(append_config_paths)]
          \o (IF Given(core_path) THEN <<"-L", core_path[1]>> ELSE <<>>)
          \o (IF menu # Some(FALSE) THEN <<"--menu">> ELSE <<>>)
          \o extra_args
          \o (IF Given(content_path) THEN <<content_path[1]>> ELSE <<>>)

\* retroarch.py 65-98
build_command(retroarch_path, core_path, content_path, config_path, append_config_paths, menu, verbose, extra_args) ==
    LET AppendArgs[i \in 0..Len(append_config_paths)] ==
            IF i = 0 THEN <<>>
            ELSE AppendArgs[i - 1]
                   \o <<"--appendconfig", append_config_paths[i]>>
    IN  <<retroarch_path>>
          \o (IF verbose THEN <<"--verbose">> ELSE <<>>)
          \o (IF Given(config_path) THEN <<"--config", config_path[1]>> ELSE <<>>)
          \o AppendArgs[Len(append_config_paths)]
          \o (IF Given(core_path) THEN <<"-L", core_path[1]>> ELSE <<>>)
          \o (IF menu = Some(TRUE) \/ (menu = None /\ ~Given(content_path))
                THEN <<"--menu">> ELSE <<>>)
          \o extra_args
          \o (IF Given(content_path) THEN <<content_path[1]>> ELSE <<>>)

\* runner.py 227-228
append_configs == Append(definition.append_config_paths, RunConfig)

\* the vector launch builds for the step (runner.py 302-312,
\* retroarch.py 116-125)
LaunchCommand ==
    build_command(Executable,
                  Or(step.core_path, definition.core_path),
                  Or(step.content_path, definition.content_path),
                  Or(step.config_path, definition.config_path),
                  append_configs, step.menu, step.verbose, step.extra_args)

\* Launch without the check of retroarch.py 112-113
LaunchWithoutCheck ==
    /\ AtStep("launch")
    /\ UNCHANGED <<defvars, slotvars, capvars, pending, sent, signals, sd_caller, shutdown_calls,
                   report_writes>>
    /\ \E found \in BOOLEAN, spawned \in BOOLEAN :
         IF ~found
           THEN /\ Fail(ExecutableNotFound)
                /\ UNCHANGED <<ctlvars, procs>>
           ELSE /\ log_closes' = IF log_handle # "None"
                                   THEN log_closes + 1 ELSE log_closes
                /\ log_opens' = log_opens + 1
                /\ log_handle' = "open"
                /\ commands' = Append(commands, LaunchCommand)
                /\ IF spawned
                     THEN /\ procs' = Append(procs, "alive")
                          /\ process' = Len(procs) + 1
                          /\ launch_mark' = Len(sent)
                          /\ Pass("RetroArch launched")
                     ELSE /\ UNCHANGED <<procs, process, launch_mark>>
                          /\ Fail(SpawnError)

\* ------------------------------------------------------------- launch
\* runner.py 302-314 with RetroArchController.launch (retroarch.py 100-145)
Launch ==
    /\ AtStep("launch")
    /\ UNCHANGED <<defvars, slotvars, capvars, pending, sent, signals, sd_caller, shutdown_calls,
                   report_writes>>
    /\ IF Alive(process)
         THEN /\ Fail(AlreadyRunning)
              /\ UNCHANGED <<ctlvars, procs>>
         ELSE \E found \in BOOLEAN, spawned \in BOOLEAN :
              IF ~found
                THEN /\ Fail(ExecutableNotFound)
                     /\ UNCHANGED <<ctlvars, procs>>
                ELSE /\ log_closes' = IF log_handle # "None"
                                        THEN log_closes + 1 ELSE log_closes
                     /\ log_opens' = log_opens + 1
                     /\ log_handle' = "open"
                     /\ commands' = Append(commands, LaunchCommand)
                     /\ IF spawned
                          THEN /\ procs' = Append(procs, "alive")
                               /\ process' = Len(procs) + 1
                               /\ launch_mark' = Len(sent)
                               /\ Pass("RetroArch launched")
                          ELSE /\ UNCHANGED <<procs, process, launch_mark>>
                               /\ Fail(SpawnError)

\* --------------------------------------------------------------- wait
\* runner.py 316-318; time.sleep raises ValueError for a negative length
Wait ==
    /\ AtStep("wait")
    /\ UNCHANGED <<defvars, slotvars, capvars, pending, ctlvars, procs, sent, signals, sd_caller,
                   shutdown_calls, report_writes>>
    /\ IF step.seconds < 0
         THEN Fail(SleepValueError)
         ELSE Pass("Waited")

\* Command refusing to send unless the child is alive
CommandNeedsChild ==
    /\ AtStep("command")
    /\ UNCHANGED <<defvars, slotvars, capvars, pending, ctlvars, procs, signals, sd_caller,
                   shutdown_calls, report_writes>>
    /\ IF ~Alive(process)
         THEN sent' = sent /\ Fail("RetroArch is not running.")
         ELSE \E ok \in BOOLEAN :
                IF ok
                  THEN sent' = Append(sent, step.command) /\ Pass("Sent command")
                  ELSE sent' = sent /\ Fail(SendError)

\* ------------------------------------------------------------ command
\* runner.py 320-322 with send_command (retroarch.py 147-151)
Command ==
    /\ AtStep("command")
    /\ UNCHANGED <<defvars, slotvars, capvars, pending, ctlvars, procs, signals, sd_caller,
                   shutdown_calls, report_writes>>
    /\ \E ok \in BOOLEAN :
         IF ok
           THEN sent' = Append(sent, step.command) /\ Pass("Sent command")
           ELSE sent' = sent /\ Fail(SendError)

\* -------------------------------------------------------------- input
\* runner.py 324-329: the first k sends succeed; k < repeat means send
\* k+1 raised
Repeated(c, k) == [i \in 1..k |-> c]

Input ==
    /\ AtStep("input")
    /\ UNCHANGED <<defvars, slotvars, capvars, pending, ctlvars, procs, signals, sd_caller,
                   shutdown_calls, report_writes>>
    /\ \E k \in 0..(IF step.repeat > 0 THEN step.repeat ELSE 0) :
         /\ sent' = sent \o Repeated(step.command, k)
         /\ IF k = step.repeat \/ step.repeat <= 0
              THEN Pass("Sent input")
              ELSE Fail(SendError)

\* ------------------------------------------- save_state / load_state
StateToken(t) == IF t = "save_state" THEN "SAVE_STATE" ELSE "LOAD_STATE"
StateMessage(t) == IF t = "save_state" THEN "Save state command issued"
                                       ELSE "Load state command issued"

\* runner.py 334 / 340: the send that follows the optional slot move
SendStateToken ==
    \E ok \in BOOLEAN :
        IF ok
          THEN /\ sent' = Append(sent, StateToken(step.type))
               /\ Pass(StateMessage(step.type))
          ELSE /\ sent' = sent
               /\ Fail(SendError)

\* runner.py 331-341 up to the entry of the loops of set_state_slot
\* (retroarch.py 153-155)
StateStep ==
    /\ UNCHANGED <<defvars, capvars, pending, ctlvars, procs, signals,
                   sd_caller, shutdown_calls, report_writes>>
    /\ IF step.slot = None
         THEN SendStateToken /\ UNCHANGED slotvars
         ELSE /\ slot_from' = state_slot
              /\ slot_mark' = Len(sent)
              /\ UNCHANGED <<state_slot, sent>>
              /\ IF step.slot[1] < 0
                   THEN Fail(InvalidSlot)
                   ELSE pc' = "set_state_slot" /\ UNCHANGED loopvars

\* runner.py 331-335
SaveState ==
    /\ AtStep("save_state")
    /\ StateStep

\* runner.py 337-341
LoadState ==
    /\ AtStep("load_state")
    /\ StateStep

\* MoveSlot moving the cursor before the send, whether or not it succeeds
MoveSlotCursorFirst(token, delta) ==
    /\ UNCHANGED <<defvars, capvars, pending, dispatched, ctlvars, procs,
                   signals, sd_caller, shutdown_calls, report_writes,
                   slot_from, slot_mark>>
    /\ state_slot' = state_slot + delta
    /\ \E ok \in BOOLEAN :
         IF ok
           THEN /\ sent' = Append(sent, token)
                /\ UNCHANGED <<pc, loopvars>>
           ELSE /\ UNCHANGED sent
                /\ Fail(SendError)

\* one iteration of a loop of set_state_slot: the send, then the cursor
MoveSlot(token, delta) ==
    /\ UNCHANGED <<defvars, capvars, pending, dispatched, ctlvars, procs,
                   signals, sd_caller, shutdown_calls, report_writes,
                   slot_from, slot_mark>>
    /\ \E ok \in BOOLEAN :
         IF ok
           THEN /\ sent' = Append(sent, token)
                /\ state_slot' = state_slot + delta
                /\ UNCHANGED <<pc, loopvars>>
           ELSE /\ UNCHANGED <<sent, state_slot>>
                /\ Fail(SendError)

\* retroarch.py 157-159
SlotPlus ==
    /\ pc = "set_state_slot"
    /\ state_slot < step.slot[1]
    /\ MoveSlot("STATE_SLOT_PLUS", 1)

\* SlotMinus sending the token of the other loop
SlotMinusSendsPlus ==
    /\ pc = "set_state_slot"
    /\ state_slot > step.slot[1]
    /\ MoveSlot("STATE_SLOT_PLUS", -1)

\* retroarch.py 161-163
SlotMinus ==
    /\ pc = "set_state_slot"
    /\ state_slot > step.slot[1]
    /\ MoveSlot("STATE_SLOT_MINUS", -1)

\* both loops of set_state_slot are over: it returns and the step sends
\* its own token
SlotReached ==
    /\ pc = "set_state_slot"
    /\ ~(state_slot < step.slot[1])
    /\ ~(state_slot > step.slot[1])
    /\ SendStateToken
    /\ UNCHANGED <<defvars, slotvars, capvars, pending, dispatched, ctlvars,
                   procs, signals, sd_caller, shutdown_calls, report_writes>>

\* Validate recording the verdict without letting it decide the step
ValidateIgnoresVerdict(path) ==
    IF ~openrouter
      THEN Finish("failed", None, Some(ValidatorUnconfigured), Some(path), None)
      ELSE \E verdict \in {"pass", "fail", "error"} :
             CASE verdict = "error" ->
                    Finish("failed", None, Some(ValidatorCallFailed),
                           Some(path), None)
               [] verdict = "pass" ->
                    Finish("passed", None, None, Some(path),
                           Some([passed |-> TRUE, reason |-> ValidatorReason]))
               [] verdict = "fail" ->
                    Finish("passed", None, None, Some(path),
                           Some([passed |-> FALSE, reason |-> ValidatorReason]))

\* Validate letting a step without a validator pass
ValidateUnconfiguredPasses(path) ==
    IF ~openrouter
      THEN Finish("passed", None, None, Some(path), None)
      ELSE \E verdict \in {"pass", "fail", "error"} :
             CASE verdict = "error" ->
                    Finish("failed", None, Some(ValidatorCallFailed),
                           Some(path), None)
               [] verdict = "pass" ->
                    Finish("passed", None, None, Some(path),
                           Some([passed |-> TRUE, reason |-> ValidatorReason]))
               [] verdict = "fail" ->
                    Finish("failed", None, Some(ValidatorReason), Some(path),
                           Some([passed |-> FALSE, reason |-> ValidatorReason]))

\* -------------------------------------------------- screenshot_assert
\* runner.py 352-375: the screenshot is recorded, then the validator decides
Validate(path) ==
    IF ~openrouter
      THEN Finish("failed", None, Some(ValidatorUnconfigured), Some(path), None)
      ELSE \E verdict \in {"pass", "fail", "error"} :
             CASE verdict = "error" ->
                    Finish("failed", None, Some(ValidatorCallFailed),
                           Some(path), None)
               [] verdict = "pass" ->
                    Finish("passed", None, None, Some(path),
                           Some([passed |-> TRUE, reason |-> ValidatorReason]))
               [] verdict = "fail" ->
                    Finish("failed", None, Some(ValidatorReason), Some(path),
                           Some([passed |-> FALSE, reason |-> ValidatorReason]))

\* screenshots_dir.glob("*.*")
HasDot(n) == n # PlainFile
Glob(d) == [n \in AllNames |-> IF HasDot(n) THEN d[n] ELSE Absent]

\* Candidates without the test of retroarch.py 178
CandidatesAnyFile == Names(Glob(dir))

\* the files the scan of retroarch.py 174-180 returns on
Candidates ==
    {n \in Names(Glob(dir)) : before[n] = Absent \/ dir[n] > start_time}

\* runner.py 344-349 with _capture_system_screenshot (runner.py 154-192)
SystemScreenshot ==
    /\ AtStep("screenshot_assert")
    /\ step.capture_mode = "system"
    /\ UNCHANGED <<defvars, slotvars, pending, ctlvars, procs, sent, signals,
                   sd_caller, shutdown_calls, report_writes, now, start_time,
                   before, deadline, wake, last_poll, requests>>
    /\ IF platform # "Darwin"
         THEN Fail(SystemCaptureUnsupported) /\ UNCHANGED dir
         ELSE IF ~Alive(process)
           THEN Fail(SystemCaptureNotRunning) /\ UNCHANGED dir
           ELSE \E produced \in BOOLEAN :
                  IF produced /\ step.timeout_seconds > 0
                    THEN /\ dir' = Written(dir, SystemFile, now)
                         /\ Validate(SystemFile)
                    ELSE /\ UNCHANGED dir
                         /\ Fail(SystemCaptureFailed)

\* runner.py 351 with retroarch.py 166-167: capture_screenshot reads the
\* clock
CaptureStarts ==
    /\ AtStep("screenshot_assert")
    /\ step.capture_mode = "retroarch"
    /\ start_time' = now
    /\ last_poll' = <<>>
    /\ pc' = "capture_snapshot"
    /\ UNCHANGED <<defvars, slotvars, loopvars, pending, ctlvars, procs, sent,
                   signals, sd_caller, shutdown_calls, report_writes, now, dir,
                   before, deadline, wake, requests>>

\* retroarch.py 168-172: the snapshot, the SCREENSHOT command, the deadline
Snapshot ==
    /\ pc = "capture_snapshot"
    /\ before' = Glob(dir)
    /\ UNCHANGED <<defvars, slotvars, pending, dispatched, ctlvars, procs,
                   signals, sd_caller, shutdown_calls, report_writes, now, dir,
                   start_time, last_poll>>
    /\ \E ok \in BOOLEAN :
         IF ok
           THEN /\ sent' = Append(sent, "SCREENSHOT")
                /\ requests' = requests + 1
                /\ deadline' = start_time + step.timeout_seconds
                /\ wake' = now
                /\ pc' = "capture_poll"
                /\ UNCHANGED loopvars
           ELSE /\ UNCHANGED <<sent, requests, deadline, wake>>
                /\ Fail(SendError)

\* the loop condition of retroarch.py 173 is evaluated when the sleep of
\* the previous iteration is over
AtPoll ==
    /\ pc = "capture_poll"
    /\ now >= wake
    /\ UNCHANGED <<defvars, slotvars, pending, dispatched, ctlvars, procs, sent,
                   signals, sd_caller, shutdown_calls, report_writes, now, dir,
                   start_time, before, deadline, requests>>

\* retroarch.py 173-180: the scan finds a file and returns it
PollFinds ==
    /\ AtPoll
    /\ now < deadline
    /\ last_poll' = Append(last_poll, now)
    /\ UNCHANGED wake
    /\ \E n \in Candidates : Validate(n)

\* retroarch.py 173-181: the scan finds nothing, the loop sleeps
PollSleeps ==
    /\ AtPoll
    /\ now < deadline
    /\ Candidates = {}
    /\ last_poll' = Append(last_poll, now)
    /\ wake' = now + SleepTicks
    /\ UNCHANGED <<pc, loopvars>>

\* retroarch.py 173 and 183
CaptureTimesOut ==
    /\ AtPoll
    /\ ~(now < deadline)
    /\ UNCHANGED <<wake, last_poll>>
    /\ Fail(ScreenshotTimeout)

\* the clock advances while capture_screenshot is between reading the
\* clock and taking the snapshot, and while it sleeps
Tick ==
    /\ \/ pc = "capture_snapshot" /\ now = start_time
       \/ pc = "capture_poll" /\ now < wake
    /\ now' = now + 1
    /\ UNCHANGED <<defvars, slotvars, pc, loopvars, pending, dispatched, ctlvars,
                   procs, sent, signals, sd_caller, shutdown_calls,
                   report_writes, dir, start_time, before, deadline, wake,
                   last_poll, requests>>

\* the emulator answers a SCREENSHOT command it received: it writes its
\* screenshot file, under the name its content and the clock give it
EmulatorWrites ==
    /\ pc \in {"capture_snapshot", "capture_poll"}
    /\ requests > 0
    /\ requests' = requests - 1
    /\ dir' = Written(dir, NewFile, now)
    /\ UNCHANGED <<defvars, slotvars, pc, loopvars, pending, dispatched, ctlvars,
                   procs, sent, signals, sd_caller, shutdown_calls,
                   report_writes, now, start_time, before, deadline, wake,
                   last_poll>>

\* somebody else writes a file into the screenshot directory, or rewrites
\* one
FileWritten ==
    /\ pc \in {"capture_snapshot", "capture_poll"}
    /\ \E n \in FileNames :
         /\ dir[n] # now
         /\ dir' = Written(dir, n, now)
    /\ UNCHANGED <<defvars, slotvars, pc, loopvars, pending, dispatched, ctlvars,
                   procs, sent, signals, sd_caller, shutdown_calls,
                   report_writes, now, start_time, before, deadline, wake,
                   last_poll, requests>>

\* ----------------------------------------------------------- shutdown
\* return of controller.shutdown to its caller: the exit step passes
\* (runner.py 378-379); after the finally clause run goes on to write the
\* report (runner.py 266-284) unless an exception is propagating
ShutdownReturns ==
    /\ sd_caller' = "none"
    /\ IF sd_caller = "exit"
         THEN /\ Pass("RetroArch shutdown requested")
              /\ UNCHANGED <<pending, report_writes>>
         ELSE /\ UNCHANGED <<loopvars, pending>>
              /\ IF pending = None
                   THEN pc' = "done" /\ report_writes' = report_writes + 1
                   ELSE pc' = "raised" /\ report_writes' = report_writes

\* an exception leaving controller.shutdown: the exit step fails with it
\* (runner.py 381-383); out of the finally clause it leaves run
ShutdownRaises(err) ==
    /\ sd_caller' = "none"
    /\ UNCHANGED report_writes
    /\ IF sd_caller = "exit"
         THEN Fail(err) /\ UNCHANGED pending
         ELSE /\ UNCHANGED loopvars
              /\ pending' = Some(err)
              /\ pc' = "raised"

\* ShutdownCalled without the poll of retroarch.py 189-190
ShutdownCalledOnHandle(caller) ==
    /\ shutdown_calls' = Append(shutdown_calls, caller)
    /\ UNCHANGED <<defvars, slotvars, capvars, ctlvars, procs, signals>>
    /\ IF process = 0
         THEN /\ sent' = sent
              /\ sd_caller' = "none"
              /\ IF caller = "exit"
                   THEN /\ Pass("RetroArch shutdown requested")
                        /\ UNCHANGED <<pending, report_writes>>
                   ELSE /\ UNCHANGED <<loopvars, pending>>
                        /\ IF pending = None
                             THEN pc' = "done" /\ report_writes' = report_writes + 1
                             ELSE pc' = "raised" /\ report_writes' = report_writes
         ELSE /\ \E ok \in BOOLEAN :
                   sent' = IF ok THEN Append(sent, "QUIT") ELSE sent
              /\ sd_caller' = caller
              /\ pc' = "sd_wait1"
              /\ UNCHANGED <<loopvars, pending, report_writes>>

\* retroarch.py 185-195: the two early returns, then the best-effort QUIT
ShutdownCalled(caller) ==
    /\ shutdown_calls' = Append(shutdown_calls, caller)
    /\ UNCHANGED <<defvars, slotvars, capvars, ctlvars, procs, signals>>
    /\ IF ~Alive(process)
         THEN /\ sent' = sent
              /\ sd_caller' = "none"
              /\ IF caller = "exit"
                   THEN /\ Pass("RetroArch shutdown requested")
                        /\ UNCHANGED <<pending, report_writes>>
                   ELSE /\ UNCHANGED <<loopvars, pending>>
                        /\ IF pending = None
                             THEN pc' = "done" /\ report_writes' = report_writes + 1
                             ELSE pc' = "raised" /\ report_writes' = report_writes
         ELSE /\ \E ok \in BOOLEAN :
                   sent' = IF ok THEN Append(sent, "QUIT") ELSE sent
              /\ sd_caller' = caller
              /\ pc' = "sd_wait1"
              /\ UNCHANGED <<loopvars, pending, report_writes>>

\* runner.py 377-379
Exit ==
    /\ AtStep("exit")
    /\ ShutdownCalled("exit")

\* runner.py 263-264
FinalShutdown ==
    /\ pc = "finally"
    /\ UNCHANGED dispatched
    /\ ShutdownCalled("finally")

\* retroarch.py 197-199: wait returned, shutdown returns at line 199
Wait1Returns ==
    /\ pc = "sd_wait1"
    /\ ~Alive(process)
    /\ ShutdownReturns
    /\ UNCHANGED <<defvars, slotvars, capvars, dispatched, ctlvars, procs, sent, signals,
                   shutdown_calls>>

\* retroarch.py 200-201
Wait1TimesOut ==
    /\ pc = "sd_wait1"
    /\ Alive(process)
    /\ pc' = "sd_terminate"
    /\ UNCHANGED <<defvars, slotvars, capvars, loopvars, pending, dispatched, ctlvars, procs, sent,
                   signals, sd_caller, shutdown_calls, report_writes>>

\* Signal without the poll: the signal goes out whatever the child's state
SignalWithoutPoll(sig) ==
    signals' = Append(signals, [pid |-> process, sig |-> sig])

\* Popen.send_signal polls first and signals only a child not yet reaped
Signal(sig) ==
    signals' = IF Alive(process)
                 THEN Append(signals, [pid |-> process, sig |-> sig])
                 ELSE signals

\* retroarch.py 203
Terminate ==
    /\ pc = "sd_terminate"
    /\ Signal("SIGTERM")
    /\ pc' = "sd_wait2"
    /\ UNCHANGED <<defvars, slotvars, capvars, loopvars, pending, dispatched, ctlvars, procs, sent,
                   sd_caller, shutdown_calls, report_writes>>

\* retroarch.py 211-216, then return
CloseLogAndReturn ==
    /\ log_closes' = IF log_handle # "None" THEN log_closes + 1 ELSE log_closes
    /\ log_handle' = "None"
    /\ UNCHANGED <<process, log_opens, commands, launch_mark>>
    /\ ShutdownReturns

\* retroarch.py 204-205: wait returned
Wait2Returns ==
    /\ pc = "sd_wait2"
    /\ ~Alive(process)
    /\ CloseLogAndReturn
    /\ UNCHANGED <<defvars, slotvars, capvars, dispatched, procs, sent, signals, shutdown_calls>>

\* retroarch.py 206-207
Wait2TimesOut ==
    /\ pc = "sd_wait2"
    /\ Alive(process)
    /\ pc' = "sd_kill"
    /\ UNCHANGED <<defvars, slotvars, capvars, loopvars, pending, dispatched, ctlvars, procs, sent,
                   signals, sd_caller, shutdown_calls, report_writes>>

\* retroarch.py 208
Kill ==
    /\ pc = "sd_kill"
    /\ Signal("SIGKILL")
    /\ pc' = "sd_wait3"
    /\ UNCHANGED <<defvars, slotvars, capvars, loopvars, pending, dispatched, ctlvars, procs, sent,
                   sd_caller, shutdown_calls, report_writes>>

\* retroarch.py 209: wait returned
Wait3Returns ==
    /\ pc = "sd_wait3"
    /\ ~Alive(process)
    /\ CloseLogAndReturn
    /\ UNCHANGED <<defvars, slotvars, capvars, dispatched, procs, sent, signals, shutdown_calls>>

\* Wait3TimesOut with the timeout swallowed: shutdown closes the log and
\* returns although the child is still there
Wait3TimesOutSuppressed ==
    /\ pc = "sd_wait3"
    /\ Alive(process)
    /\ CloseLogAndReturn
    /\ UNCHANGED <<defvars, slotvars, capvars, dispatched, procs, sent, signals, shutdown_calls>>

\* retroarch.py 209: wait(timeout=timeout_seconds) raises TimeoutExpired,
\* which nothing in shutdown catches
Wait3TimesOut ==
    /\ pc = "sd_wait3"
    /\ Alive(process)
    /\ ShutdownRaises(TimeoutExpired)
    /\ UNCHANGED <<defvars, slotvars, capvars, dispatched, ctlvars, procs, sent, signals,
                   shutdown_calls>>

\* ---------------------------------------------------------- run's loop
\* runner.py 256: the for loop is exhausted
LoopEnds ==
    /\ pc = "loop"
    /\ index = Len(steps)
    /\ pc' = "finally"
    /\ UNCHANGED <<defvars, slotvars, capvars, loopvars, pending, dispatched, ctlvars, procs, sent,
                   signals, sd_caller, shutdown_calls, report_writes>>

\* Interrupt leaving run without passing through the finally clause
InterruptSkipsFinally ==
    /\ pc = "loop"
    /\ index < Len(steps)
    /\ dispatched' = Append(dispatched, index)
    /\ pending' = Some("KeyboardInterrupt")
    /\ pc' = "raised"
    /\ UNCHANGED <<defvars, slotvars, capvars, loopvars, ctlvars, procs, sent, signals, sd_caller,
                   shutdown_calls, report_writes>>

\* runner.py 381: only Exception is caught; a KeyboardInterrupt raised
\* while a step is dispatched leaves _run_step and the loop, and reaches
\* the finally clause (runner.py 263)
Interrupt ==
    /\ pc = "loop"
    /\ index < Len(steps)
    /\ dispatched' = Append(dispatched, index)
    /\ pending' = Some("KeyboardInterrupt")
    /\ pc' = "finally"
    /\ UNCHANGED <<defvars, slotvars, capvars, loopvars, ctlvars, procs, sent, signals, sd_caller,
                   shutdown_calls, report_writes>>

\* ------------------------------------------------------------ children
\* a child exits on its own account: a crash, a closed window, or its
\* reaction to QUIT, SIGTERM or SIGKILL
ChildExits ==
    /\ pc \notin {"done", "raised"}
    /\ \E p \in 1..Len(procs) :
         /\ procs[p] = "alive"
         /\ procs' = [procs EXCEPT ![p] = "exited"]
    /\ UNCHANGED <<defvars, slotvars, capvars, pc, loopvars, pending, dispatched, ctlvars, sent,
                   signals, sd_caller, shutdown_calls, report_writes>>

RunNext ==
    \/ Launch \/ Wait \/ Command \/ Input \/ Exit
    \/ SaveState \/ LoadState \/ SlotPlus \/ SlotMinus \/ SlotReached
    \/ SystemScreenshot \/ CaptureStarts \/ Snapshot
    \/ PollFinds \/ PollSleeps \/ CaptureTimesOut \/ Tick \/ EmulatorWrites
    \/ LoopEnds \/ FinalShutdown
    \/ Wait1Returns \/ Wait1TimesOut \/ Terminate
    \/ Wait2Returns \/ Wait2TimesOut \/ Kill
    \/ Wait3Returns \/ Wait3TimesOut
    \/ ChildExits

Next == RunNext \/ Interrupt

\* runs of any definition, a KeyboardInterrupt included
Spec == Init /\ [][Next]_vars

\* runs of any definition that nobody interrupts
RunSpec == Init /\ [][RunNext]_vars

\* runs of definitions made of save_state and load_state steps
SlotInit == InitWith(SeqsUpTo(SlotSteps, MaxSteps), {PlainDefinition}, {EmptyDir}, {FALSE},
                     {"Linux"})

SlotNext ==
    \/ SaveState \/ LoadState \/ SlotPlus \/ SlotMinus \/ SlotReached
    \/ LoopEnds \/ FinalShutdown

SlotSpec == SlotInit /\ [][SlotNext]_vars

\* runs of definitions that launch once, or launch, exit and launch again,
\* with every combination of the fields build_command branches on
LaunchDefinitions ==
    {<<l>> : l \in LaunchSteps} \cup {<<l, ExitStep, l>> : l \in LaunchSteps}
LaunchSettings ==
    {MkDefinition(Some(Core), c, g, a) :
        c \in {None, Some(Content)}, g \in {None, Some(BaseConfig)},
        a \in SeqsUpTo({UserConfig}, MaxAppend)}

LaunchInit == InitWith(LaunchDefinitions, LaunchSettings, {EmptyDir}, {FALSE},
                       {"Linux"})

LaunchNext ==
    \/ Launch \/ Exit \/ LoopEnds \/ FinalShutdown
    \/ Wait1Returns \/ Wait1TimesOut \/ Terminate
    \/ Wait2Returns \/ Wait2TimesOut \/ Kill
    \/ Wait3Returns \/ Wait3TimesOut
    \/ ChildExits

LaunchSpec == LaunchInit /\ [][LaunchNext]_vars

\* runs of a definition of one native screenshot_assert step, in a
\* directory anybody may write to
CaptureInit ==
    InitWith([1..1 -> CaptureSteps], {PlainDefinition},
             {EmptyDir, Written(EmptyDir, OldFile, 0)},
             BOOLEAN, {"Linux"})

CaptureNext ==
    \/ CaptureStarts \/ Snapshot \/ PollFinds \/ PollSleeps \/ CaptureTimesOut
    \/ Tick \/ EmulatorWrites \/ FileWritten
    \/ LoopEnds \/ FinalShutdown

CaptureSpec == CaptureInit /\ [][CaptureNext]_vars

\* ====================================================================
\* Properties
\* ====================================================================
Range(f) == {f[i] : i \in DOMAIN f}
Failed(k) == step_results[k].status = "failed"

\* result k is the result of step k of the definition
ResultsArePrefix ==
    /\ Len(step_results) <= Len(steps)
    /\ \A k \in 1..Len(step_results) :
         /\ step_results[k].index = k - 1
         /\ step_results[k].type = steps[k].type

\* C1: with continue_on_failure = false the step results are an exact
\* prefix of the definition's steps, only the last result can be failed,
\* and no step after the first failed one is dispatched
C1_PrefixEndsAtFirstFailure ==
    ~continue_on_failure =>
        /\ ResultsArePrefix
        /\ \A k \in 1..Len(step_results) : Failed(k) => k = Len(step_results)
        /\ \A k \in 1..Len(step_results) :
             Failed(k) => \A i \in Range(dispatched) : i <= k - 1

\* a run that stopped at a failed first step of a longer definition
C1_Witness ==
    /\ ~continue_on_failure
    /\ pc = "done"
    /\ Len(steps) = MaxSteps
    /\ Len(step_results) = 1
    /\ Failed(1)

\* C2: with continue_on_failure = true the results are in definition order
\* and a loop that nothing interrupts leaves one result per defined step
C2_OneResultPerStep ==
    continue_on_failure =>
        /\ ResultsArePrefix
        /\ (pc = "done" \/ (pc = "finally" /\ pending = None))
              => Len(step_results) = Len(steps)

\* a finished run whose first step failed and whose later steps ran
C2_Witness ==
    /\ continue_on_failure
    /\ pc = "done"
    /\ Len(steps) = MaxSteps
    /\ Len(step_results) = MaxSteps
    /\ Failed(1)

\* C3: passed is true exactly when no step result is failed; a definition
\* without steps gives passed = true and no step results
C3_PassedIffNoFailure ==
    /\ passed = (\A k \in 1..Len(step_results) : ~Failed(k))
    /\ (pc = "done" /\ Len(steps) = 0) => (passed /\ step_results = <<>>)

\* a finished run with a failed step followed by a passed one
C3_Witness ==
    /\ pc = "done"
    /\ report_writes = 1
    /\ Len(step_results) = 2
    /\ Failed(1)
    /\ ~Failed(2)
    /\ ~passed

\* ---------------------------------------------------------------- C4
Errors == {AlreadyRunning, ExecutableNotFound, InvalidSlot, SleepValueError,
           SendError, SpawnError, TimeoutExpired, ScreenshotTimeout,
           SystemCaptureUnsupported, SystemCaptureNotRunning,
           SystemCaptureFailed, ValidatorUnconfigured, ValidatorCallFailed,
           ValidatorReason}

\* C4: every error raised while a step is dispatched becomes a failed
\* result with an error text; every dispatch that returned left its result,
\* and the loop is left with an exception pending only by an interrupt,
\* never by one of those errors
C4_ErrorsBecomeFailedResults ==
    /\ \A k \in 1..Len(step_results) :
         /\ Failed(k) => step_results[k].error \in {Some(e) : e \in Errors}
         /\ k <= Len(dispatched) /\ step_results[k].index = dispatched[k]
    /\ pc = "loop" => pending = None /\ Len(dispatched) = Len(step_results)
    /\ pc = "finally" =>
         \/ pending = None /\ Len(dispatched) = Len(step_results)
         \/ pending = Some("KeyboardInterrupt")

\* a finished run in which a capture timed out, the loop went on, and an
\* invalid slot was refused
C4_Witness ==
    /\ pc = "done"
    /\ Len(step_results) = 2
    /\ step_results[1].status = "failed"
    /\ step_results[1].error = Some(ScreenshotTimeout)
    /\ step_results[2].status = "failed"
    /\ step_results[2].error = Some(InvalidSlot)

\* ---------------------------------------------------------------- C5
\* C5: every run ends with results.json written exactly once; no run ends
\* with an error and no report
C5_ReportWrittenOnce ==
    /\ report_writes <= 1
    /\ pc \in {"done", "raised"} => report_writes = 1

\* ---------------------------------------------------------------- C6
FinalCalls == {k \in 1..Len(shutdown_calls) : shutdown_calls[k] = "finally"}
InShutdown == pc \in {"sd_wait1", "sd_terminate", "sd_wait2", "sd_kill",
                      "sd_wait3"}

\* C6: the finally clause calls controller.shutdown exactly once, after the
\* loop was left by exhaustion, by the break or by an exception; it is the
\* last call, and the runner is never again where a step is dispatched
C6_ShutdownOnceAfterLoop ==
    /\ Cardinality(FinalCalls) <= 1
    /\ pc \in {"done", "raised"} => Cardinality(FinalCalls) = 1
    /\ FinalCalls # {} =>
         /\ FinalCalls = {Len(shutdown_calls)}
         /\ \/ pc \in {"done", "raised"}
            \/ InShutdown /\ sd_caller = "finally"
    /\ (InShutdown /\ sd_caller = "exit") => FinalCalls = {}
    /\ pc \in {"loop", "finally", "set_state_slot", "capture_snapshot",
               "capture_poll"} => FinalCalls = {}

\* a run of two steps interrupted in its first step: shutdown was called
\* once and the second step was never dispatched
C6_Witness ==
    /\ pc = "raised"
    /\ pending = Some("KeyboardInterrupt")
    /\ shutdown_calls = <<"finally">>
    /\ Len(steps) = 2
    /\ dispatched = <<0>>

\* ---------------------------------------------------------------- C7
\* _run_step returns the result of a launch step
LaunchReturns ==
    /\ pc = "loop"
    /\ index < Len(steps)
    /\ step.type = "launch"
    /\ Len(step_results') = Len(step_results) + 1

\* the launch was refused and the controller is as it was
LaunchRefused ==
    /\ step_results'[Len(step_results')].status = "failed"
    /\ step_results'[Len(step_results')].error = Some(AlreadyRunning)
    /\ process' = process
    /\ procs' = procs
    /\ log_opens' = log_opens
    /\ log_closes' = log_closes
    /\ log_handle' = log_handle
    /\ commands' = commands

\* C7 as stated: a launch after a launch that left a process handle, with
\* no shutdown or exit step since, is refused and changes nothing
C7_SecondLaunchRefused ==
    [][(LaunchReturns /\ process # 0 /\ shutdown_calls = <<>>)
          => LaunchRefused]_vars

\* C7: a launch while the child of the process handle is still alive is
\* refused with the already-running error, spawns no child, and leaves the
\* handle and the log file as they were
C7_LaunchWhileAliveRefused ==
    [][(LaunchReturns /\ Alive(process)) => LaunchRefused]_vars

\* a second launch was refused; the only child is the first one
C7_Witness ==
    /\ Len(step_results) = 2
    /\ step_results[1].type = "launch"
    /\ step_results[1].status = "passed"
    /\ step_results[2].type = "launch"
    /\ step_results[2].error = Some(AlreadyRunning)
    /\ process = 1
    /\ Len(procs) = 1
    /\ log_opens = 1

\* ---------------------------------------------------------------- C8
Abs(n) == IF n < 0 THEN -n ELSE n
\* the datagrams sent since set_state_slot was entered
Moved == SubSeq(sent, slot_mark + 1, Len(sent))
SlotToken(c, N) == IF N > c THEN "STATE_SLOT_PLUS" ELSE "STATE_SLOT_MINUS"

\* C8: while set_state_slot(N) runs from cursor c it has sent one datagram
\* per unit the cursor moved, all PLUS when N > c and all MINUS when N < c,
\* the cursor never leaves the interval between c and N; once the step it
\* serves has passed, the cursor is N and exactly |c - N| such datagrams
\* were sent, followed by the step's own token
C8_SlotMoves ==
    /\ state_slot >= 0
    /\ pc = "set_state_slot" =>
         LET N == step.slot[1]
             c == slot_from
         IN  /\ N >= 0
             /\ Moved = Repeated(SlotToken(c, N), Abs(state_slot - c))
             /\ IF N >= c THEN state_slot \in c..N ELSE state_slot \in N..c
    /\ (/\ pc # "set_state_slot"
        /\ step_results # <<>>
        /\ step_results[Len(step_results)].status = "passed"
        /\ steps[Len(step_results)].slot # None) =>
         LET N == steps[Len(step_results)].slot[1]
             c == slot_from
         IN  /\ state_slot = N
             /\ Moved = Repeated(SlotToken(c, N), Abs(c - N))
                          \o <<StateToken(steps[Len(step_results)].type)>>

\* the cursor was moved from MaxSlot down to 0 for a step that passed
C8_Witness ==
    /\ pc = "loop"
    /\ Len(step_results) = 2
    /\ step_results[2].status = "passed"
    /\ slot_from = MaxSlot
    /\ state_slot = 0
    /\ Len(Moved) = MaxSlot + 1
    /\ Moved[1] = "STATE_SLOT_MINUS"

\* ---------------------------------------------------------------- C9
\* C9: a call of shutdown when there is no process handle, or when the
\* process of the handle has exited, returns at once without an error: no
\* datagram, no signal, nothing done to the log handle
C9_ShutdownIdempotent ==
    [][(shutdown_calls' # shutdown_calls /\ ~Alive(process)) =>
          /\ sent' = sent
          /\ signals' = signals
          /\ log_closes' = log_closes
          /\ log_handle' = log_handle
          /\ pending' = pending
          /\ sd_caller' = "none"
          /\ pc' \in {"loop", "done", "raised"}
          /\ pc' = "loop" =>
               step_results'[Len(step_results')].status = "passed"]_vars

\* launch, exit, then the shutdown of the finally clause: the second call
\* found the process exited and sent no second QUIT
C9_Witness ==
    /\ pc = "done"
    /\ shutdown_calls = <<"exit", "finally">>
    /\ process # 0
    /\ sent = <<"QUIT">>
    /\ Len(step_results) = 2
    /\ step_results[2].status = "passed"

\* --------------------------------------------------------------- C10
Last(s) == s[Len(s)]
\* the test of retroarch.py 178 on the file of name n as it is now
Qualifies(n) ==
    /\ HasDot(n)
    /\ dir[n] # Absent
    /\ before[n] = Absent \/ dir[n] > start_time
CaptureTimedOut ==
    /\ step_results # <<>>
    /\ Last(step_results).error = Some(ScreenshotTimeout)
CaptureReturned ==
    /\ step_results # <<>>
    /\ Last(step_results).screenshot_path # None

\* C10 as stated: the capture times out only when no new or modified file
\* appeared in the directory before the timeout elapsed
C10_TimeoutOnlyWithoutFile ==
    CaptureTimedOut => ~ \E n \in FileNames : Qualifies(n) /\ dir[n] < deadline

\* C10: the capture returns only a file that one of its scans, made before
\* the deadline, found new or modified; it times out only at or after the
\* deadline, and then every new or modified file was written after the
\* last scan began, or no scan was made
C10_TimeoutOnlyWithoutFileAtScans ==
    /\ CaptureReturned =>
         /\ Qualifies(Last(step_results).screenshot_path[1])
         /\ last_poll # <<>>
         /\ Last(last_poll) < deadline
    /\ CaptureTimedOut =>
         /\ now >= deadline
         /\ \A n \in FileNames :
              Qualifies(n) => last_poll = <<>> \/ dir[n] >= Last(last_poll)
    /\ \A k \in 1..Len(last_poll) : last_poll[k] < deadline

\* a capture that timed out although the emulator's file was written
\* before the deadline, after the last scan
C10_Witness ==
    /\ CaptureTimedOut
    /\ last_poll # <<>>
    /\ dir[NewFile] # Absent
    /\ dir[NewFile] < deadline
    /\ before[NewFile] = Absent

\* --------------------------------------------------------------- C11
Assertions == {k \in 1..Len(step_results) :
                 step_results[k].type = "screenshot_assert"}
\* the errors a capture, native or system, ends a step with
CaptureErrors == {SendError, ScreenshotTimeout, SystemCaptureUnsupported,
                  SystemCaptureNotRunning, SystemCaptureFailed}

\* C11 as stated: without a validator every screenshot_assert result is
\* failed with the not-configured error, a recorded screenshot path and no
\* verdict
C11_UnconfiguredAlwaysReported ==
    ~openrouter =>
        \A k \in Assertions :
            /\ step_results[k].status = "failed"
            /\ step_results[k].error = Some(ValidatorUnconfigured)
            /\ step_results[k].screenshot_path # None
            /\ step_results[k].openrouter = None

\* C11: without a validator every screenshot_assert result is failed and
\* has no verdict; when the capture returned a file its path is recorded
\* and the error is the not-configured one; when the capture failed no
\* path is recorded and the error is the capture's
C11_UnconfiguredAfterCapture ==
    ~openrouter =>
        \A k \in Assertions :
            /\ step_results[k].status = "failed"
            /\ step_results[k].openrouter = None
            /\ step_results[k].message = None
            /\ IF step_results[k].screenshot_path # None
                 THEN step_results[k].error = Some(ValidatorUnconfigured)
                 ELSE step_results[k].error \in {Some(e) : e \in CaptureErrors}

\* a native capture found the emulator's file and the step failed for want
\* of a validator
C11_Witness ==
    /\ ~openrouter
    /\ step_results # <<>>
    /\ step_results[1].type = "screenshot_assert"
    /\ step_results[1].error = Some(ValidatorUnconfigured)
    /\ step_results[1].screenshot_path = Some(NewFile)

\* --------------------------------------------------------------- C12
\* the positions of the option --appendconfig in the vector v
AppendOptions(v) == {i \in 1..(Len(v) - 1) : v[i] = "--appendconfig"}

\* C12: in the vector of every launch the run's generated append-config
\* path is the argument of exactly one --appendconfig, and that one is the
\* last --appendconfig of the vector
C12_RunConfigLast ==
    \A k \in 1..Len(commands) :
        LET v == commands[k]
            own == {i \in AppendOptions(v) : v[i + 1] = RunConfig}
        IN  /\ Cardinality(own) = 1
            /\ \A i \in own : \A j \in AppendOptions(v) : j <= i

\* --------------------------------------------------------------- C13
\* this step is a return of controller.shutdown to its caller with the
\* process of the handle exited
ShutdownReturnsExited ==
    /\ InShutdown \/ shutdown_calls' # shutdown_calls
    /\ pc' \in {"loop", "finally", "done", "raised"}
    /\ pending' = pending
    /\ process' # 0
    /\ procs'[process'] = "exited"

\* C13: whenever shutdown returns with the child confirmed exited, the
\* controller retains no open log-file handle
C13_LogClosedWhenExited ==
    [][ShutdownReturnsExited => log_handle' # "open"]_vars

\* --------------------------------------------------------------- C14
\* C14: shutdown of a live child first attempts QUIT, whose failure does
\* not stop it, and sends no signal then; it comes to terminate only from
\* the wait after QUIT with the child alive, and to kill only from the wait
\* after terminate with the child alive; SIGTERM and SIGKILL are sent from
\* those two places only, and only to a child that is alive
C14_EscalationOrder ==
    [][/\ (pc' = "sd_wait1" /\ pc # "sd_wait1") =>
            /\ shutdown_calls' # shutdown_calls
            /\ Alive(process)
            /\ sent' = sent \/ sent' = Append(sent, "QUIT")
            /\ signals' = signals
       /\ (pc' = "sd_terminate" /\ pc # "sd_terminate") =>
            pc = "sd_wait1" /\ Alive(process)
       /\ (pc' = "sd_wait2" /\ pc # "sd_wait2") => pc = "sd_terminate"
       /\ (pc' = "sd_kill" /\ pc # "sd_kill") =>
            pc = "sd_wait2" /\ Alive(process)
       /\ (pc' = "sd_wait3" /\ pc # "sd_wait3") => pc = "sd_kill"
       /\ signals' # signals =>
            /\ Alive(process)
            /\ \/ /\ pc = "sd_terminate"
                  /\ signals' = Append(signals, [pid |-> process,
                                                 sig |-> "SIGTERM"])
               \/ /\ pc = "sd_kill"
                  /\ signals' = Append(signals, [pid |-> process,
                                                 sig |-> "SIGKILL"])
      ]_vars

\* a shutdown whose QUIT could not be sent went on to SIGTERM and SIGKILL,
\* and the child exited
C14_Witness ==
    /\ pc = "done"
    /\ sent = <<>>
    /\ signals = <<[pid |-> 1, sig |-> "SIGTERM"], [pid |-> 1, sig |-> "SIGKILL"]>>
    /\ procs = <<"exited">>

\* --------------------------------------------------------------- C15
\* C15: shutdown never raises to its caller: no exit step fails with the
\* error of a wait that timed out, and the finally clause never leaves run
\* with it
C15_ShutdownNeverRaises ==
    /\ pending # Some(TimeoutExpired)
    /\ \A k \in 1..Len(step_results) :
         step_results[k].error # Some(TimeoutExpired)

\* --------------------------------------------------------------- C16
\* C16: the process handle is absent until a child was spawned, and absent
\* again once an exit step has passed or the final shutdown has returned
C16_HandleClearedByShutdown ==
    /\ procs = <<>> => process = 0
    /\ pc = "done" => process = 0
    /\ (/\ pc = "loop"
        /\ step_results # <<>>
        /\ step_results[Len(step_results)].type = "exit"
        /\ step_results[Len(step_results)].status = "passed") => process = 0

C18_CursorFollowsSends ==
    (/\ pc # "set_state_slot"
     /\ step_results # <<>>
     /\ step_results[Len(step_results)].status = "failed"
     /\ steps[Len(step_results)].slot # None) =>
        LET N == steps[Len(step_results)].slot[1]
            c == slot_from
        IN  /\ Moved = Repeated(SlotToken(c, N), Abs(state_slot - c))
            /\ N < 0 => (state_slot = c /\ Moved = <<>>
                           /\ step_results[Len(step_results)].error
                                = Some(InvalidSlot))
            /\ N >= 0 =>
                 /\ IF N >= c THEN state_slot \in c..N ELSE state_slot \in N..c
                 /\ step_results[Len(step_results)].error = Some(SendError)

\* the second send of a move from 0 to MaxSlot raised: one datagram went
\* out and the cursor is 1
C18_Witness ==
    /\ Len(step_results) = 1
    /\ step_results[1].error = Some(SendError)
    /\ steps[1].slot = Some(MaxSlot)
    /\ slot_from = 0
    /\ state_slot = 1
    /\ sent = <<"STATE_SLOT_PLUS">>

\* --------------------------------------------------------------- C19
\* the slot of the running emulator, were every datagram sent since it
\* was spawned delivered to it: it starts at 0 and moves one unit per
\* STATE_SLOT_PLUS or STATE_SLOT_MINUS
Count(s, x) == Cardinality({i \in 1..Len(s) : s[i] = x})
EmulatorSlot ==
    LET received == SubSeq(sent, launch_mark + 1, Len(sent))
    IN  Count(received, "STATE_SLOT_PLUS") - Count(received, "STATE_SLOT_MINUS")

\* C19: between steps, while the emulator runs, the controller's cursor is
\* the emulator's slot
C19_CursorIsEmulatorSlot ==
    (pc = "loop" /\ Alive(process)) => state_slot = EmulatorSlot

\* --------------------------------------------------------------- C20
\* C20: with a validator configured, a screenshot_assert result whose
\* capture returned a file and whose validator call returned records the
\* path and the verdict, is failed exactly when the verdict is not-passed,
\* and then carries the validator's reason as its error
C20_VerdictDecides ==
    openrouter =>
        \A k \in Assertions :
            LET r == step_results[k]
            IN  /\ r.openrouter # None =>
                     /\ r.screenshot_path # None
                     /\ (r.status = "failed") <=> ~r.openrouter[1].passed
                     /\ r.status = "failed" =>
                          r.error = Some(r.openrouter[1].reason)
                     /\ r.status = "passed" => r.error = None
                /\ (r.screenshot_path # None /\ r.openrouter = None) =>
                     /\ r.status = "failed"
                     /\ r.error = Some(ValidatorCallFailed)
                /\ r.screenshot_path = None =>
                     /\ r.status = "failed"
                     /\ r.error \in {Some(e) : e \in CaptureErrors}

\* a native capture returned the emulator's file and the validator
\* rejected it
C20_Witness ==
    /\ openrouter
    /\ step_results # <<>>
    /\ step_results[1].type = "screenshot_assert"
    /\ step_results[1].status = "failed"
    /\ step_results[1].error = Some(ValidatorReason)
    /\ step_results[1].openrouter = Some([passed |-> FALSE, reason |-> ValidatorReason])
    /\ step_results[1].screenshot_path = Some(NewFile)

\* --------------------------------------------------------------- C21
\* C21: every result of an exit step is passed, with the message of the
\* shutdown request
C21_ExitAlwaysPasses ==
    \A k \in 1..Len(step_results) :
        step_results[k].type = "exit" =>
            /\ step_results[k].status = "passed"
            /\ step_results[k].message = Some("RetroArch shutdown requested")

\* --------------------------------------------------------------- C22
\* C22: every result of a wait step is passed, whatever its seconds are
C22_WaitAlwaysPasses ==
    \A k \in 1..Len(step_results) :
        step_results[k].type = "wait" => step_results[k].status = "passed"

\* --------------------------------------------------------------- C23
DispatchTypes == {"command", "input", "save_state", "load_state"}
\* a child was launched and none is alive any more
ChildrenGone ==
    /\ Len(procs) > 0
    /\ \A p \in 1..Len(procs) : procs[p] = "exited"

\* C23: a command, input, save_state or load_state step fails only through
\* a send that raised or a negative slot, never through the child's state
C23_DispatchIgnoresChild ==
    \A k \in 1..Len(step_results) :
        (step_results[k].type \in DispatchTypes /\ Failed(k)) =>
            step_results[k].error \in {Some(SendError), Some(InvalidSlot)}

\* a command step passed although the child it addressed had crashed
C23_Witness ==
    /\ ChildrenGone
    /\ Len(step_results) > 0
    /\ Last(step_results).type = "command"
    /\ Last(step_results).status = "passed"

\* --------------------------------------------------------------- C24
AliveChildren == {p \in 1..Len(procs) : procs[p] = "alive"}

\* C24: at most one spawned child is alive at any point of a run, and it is
\* the child the controller holds
C24_AtMostOneChildAlive ==
    /\ Cardinality(AliveChildren) <= 1
    /\ \A p \in AliveChildren : p = process

\* a second child was spawned after the first one had exited
C24_Witness ==
    /\ Len(procs) = 2
    /\ procs[1] = "exited"
    /\ procs[2] = "alive"
    /\ process = 2

\* --------------------------------------------------------------- C25
\* C25: when run has returned its result, no child spawned during the run
\* is alive
C25_NoChildOutlivesRun ==
    pc = "done" => \A p \in 1..Len(procs) : procs[p] = "exited"

\* run returned after a launch, without an exit step, and the child had to be
\* signalled by the shutdown of the finally clause
C25_Witness ==
    /\ pc = "done"
    /\ Len(procs) > 0
    /\ \A k \in 1..Len(steps) : steps[k].type # "exit"
    /\ Len(signals) > 0

\* --------------------------------------------------------------- C26
\* the file of name n was in the snapshot and is as the snapshot saw it
Stale(n) == before[n] # Absent /\ dir[n] = before[n]

\* capture_screenshot returns the file of name n (retroarch.py 180)
CaptureReturns(n) ==
    /\ pc = "capture_poll"
    /\ Len(step_results') = Len(step_results) + 1
    /\ Last(step_results').screenshot_path = Some(n)

\* C26: a native capture never returns a file that was in its snapshot and
\* has not been modified since the snapshot was taken
C26_NeverReturnsSnapshotFile ==
    [][\A n \in FileNames : CaptureReturns(n) => ~Stale(n)]_vars

====
